---- MODULE Spec2Model ----
(***************************************************************************)
(* FileIndex (src/fileindex.py): index_files reconciles a directory tree   *)
(* against the SQLite table files(path PRIMARY KEY, mtime); find_files     *)
(* answers conjunctive LIKE queries over the stored paths.                 *)
(*                                                                         *)
(* Strings are sequences of one-character strings, so that splitext,       *)
(* lower(), fnmatch and LIKE are computed character by character.          *)
(***************************************************************************)
EXTENDS Integers, Sequences, FiniteSets, TLC

\* ------------------------------------------------------------------ bounds

\* Modification times are 1..MaxMtime.
MaxMtime == 2

\* find_files is called with at most MaxKeywords keywords.
MaxKeywords == 2

\* ------------------------------------------------------- the file system

\* A file's state: not there, listed by os.walk but os.path.getmtime raises
\* OSError, or its modification time.
Absent == 0

NoAccess == -1

Mtimes == 1..MaxMtime

FileStates == {Absent, NoAccess} \cup Mtimes

\* dataset_path "/d", with the directory t below it and u below t.
Root == <<"/", "d">>

Join(dir, name) == dir \o <<"/">> \o name

DirT == Join(Root, <<"t">>)

DirU == Join(DirT, <<"u">>)

Dirs == {Root, DirT, DirU}

\* The subdirectory names os.walk lists in a directory, in listing order.
SubdirNames(dir) ==
    IF dir = Root THEN << <<"t">> >>
    ELSE IF dir = DirT THEN << <<"u">> >>
    ELSE << >>

\* The file names that may exist in a directory, in listing order:
\* /d/a.X, /d/t/.x (a dot file) and /d/t/u/c.x.
FileNames(dir) ==
    IF dir = Root THEN << <<"a", ".", "X">> >>
    ELSE IF dir = DirT THEN << <<".", "x">> >>
    ELSE << <<"c", ".", "x">> >>

Range(s) == {s[i] : i \in 1..Len(s)}

Paths == UNION {{Join(d, n) : n \in Range(FileNames(d))} : d \in Dirs}

\* The last position of a character in a string, 0 when it does not occur
\* (str.rfind, plus one).
LastIndexOf(s, c) ==
    LET hits == {i \in 1..Len(s) : s[i] = c}
    IN  IF hits = {} THEN 0 ELSE CHOOSE i \in hits : \A j \in hits : j <= i

\* ------------------------------------------------------- string functions

\* str.lower() on the alphabet of the model.
LowerChar(c) ==
    CASE c = "X" -> "x"
      [] c = "A" -> "a"
      [] c = "T" -> "t"
      [] OTHER -> c

Lower(s) == [i \in 1..Len(s) |-> LowerChar(s[i])]

\* os.path.splitext(path)[1]: from the last dot of the base name on, unless
\* only dots precede it in the base name.
SplitExt(p) ==
    LET sep == LastIndexOf(p, "/")
        dot == LastIndexOf(p, ".")
    IN  IF dot > sep /\ \E i \in (sep + 1)..(dot - 1) : p[i] # "."
        THEN SubSeq(p, dot, Len(p))
        ELSE << >>

\* fnmatch.fnmatch(name, pattern) on POSIX (case-sensitive) for patterns made
\* of literals, "*" and "?".
RECURSIVE Fnmatch(_, _)
Fnmatch(name, pat) ==
    IF pat = << >> THEN name = << >>
    ELSE IF Head(pat) = "*"
         THEN Fnmatch(name, Tail(pat))
              \/ (name # << >> /\ Fnmatch(Tail(name), pat))
         ELSE /\ name # << >>
              /\ (Head(pat) = "?" \/ Head(pat) = Head(name))
              /\ Fnmatch(Tail(name), Tail(pat))

\* ------------------------------------------------------------ the rules

\* config.json's exclusion settings, as passed to index_files.
Configs ==
    { [enabled |-> FALSE, exts |-> {<<"X">>}, pats |-> {<<"a", "*">>},
       dirs |-> {<<"t">>}],
      [enabled |-> TRUE, exts |-> {<<"X">>}, pats |-> {}, dirs |-> {}],
      [enabled |-> TRUE, exts |-> {<<".", "x">>},
       pats |-> {<<"a", "*">>, <<".", "?">>}, dirs |-> {<<"u">>}],
      [enabled |-> TRUE, exts |-> {}, pats |-> {}, dirs |-> {<<"t">>}],
      [enabled |-> TRUE, exts |-> {}, pats |-> {}, dirs |-> {}] }

\* Lines 85-92: the lists are cleared when exclusions are disabled, and the
\* extensions are lowercased and given a leading dot.
NormalizeExt(e) ==
    IF Len(e) > 0 /\ e[1] = "." THEN Lower(e) ELSE <<".">> \o Lower(e)

ExcludeExtensions(c) ==
    IF c.enabled THEN {NormalizeExt(e) : e \in c.exts} ELSE {}

ExcludePatterns(c) == IF c.enabled THEN c.pats ELSE {}

ExcludeDirectories(c) == IF c.enabled THEN c.dirs ELSE {}

\* KeptDirs with the filter left out.
KeptDirsAll(c, names) == names

\* Line 130: the subdirectories os.walk keeps.
KeptDirs(c, names) ==
    SelectSeq(names,
              LAMBDA d : ~ \E pat \in ExcludeDirectories(c) : Fnmatch(d, pat))

\* ExtExcluded without the lower().
ExtExcludedCaseSensitive(c, path) == SplitExt(path) \in ExcludeExtensions(c)

\* Lines 137-138 and 144.
ExtExcluded(c, path) == Lower(SplitExt(path)) \in ExcludeExtensions(c)

PatExcluded(c, f) == \E pat \in ExcludePatterns(c) : Fnmatch(f, pat)

\* ------------------------------------------------------------ the table

\* The table files is a set of rows <<path, mtime>>.
RowPaths(tbl) == {r[1] : r \in tbl}

\* Line 119: the dictionary built from the rows.
DictOf(tbl) ==
    [p \in RowPaths(tbl) |-> (CHOOSE r \in tbl : r[1] = p)[2]]

\* INSERT violates the primary key when the path is already stored.
InsertRaises(tbl, p) == p \in RowPaths(tbl)

InsertRow(tbl, p, m) == tbl \cup {<<p, m>>}

UpdateRow(tbl, p, m) ==
    {r \in tbl : r[1] # p} \cup {<<r[1], m>> : r \in {q \in tbl : q[1] = p}}

\* DeleteRow deleting nothing.
DeleteRowKeeps(tbl, p) == tbl

DeleteRow(tbl, p) == {r \in tbl : r[1] # p}

\* --------------------------------------------------------------- state

VARIABLES
    rootKind,     \* "dir", "file" or "missing": what dataset_path is
    fs,           \* the state of every candidate file
    cfg,          \* the exclusion settings in force
    tableExists,  \* the table files has been created
    index,        \* the committed rows of the table
    pc,           \* where the running call stands; "idle" between calls
    conn,         \* the call's connection: "none", "open" or "closed"
    work,         \* the rows as the open transaction sees them
    existing,     \* the baseline dictionary
    scanned,      \* index_files' set scanned
    errors,       \* index_files' list errors, as <<kind, path>>
    excluded,     \* index_files' counter excluded
    deleted,      \* index_files' counter deleted
    stack,        \* the directories os.walk has still to yield
    todo,         \* the baseline paths the delete loop has still to reach
    statted,      \* the paths os.path.getmtime was called on
    nInsert,      \* the INSERT statements executed
    nUpdate,      \* the UPDATE statements executed
    result,       \* what the call returned: "True", "False", "rows", "None"
    hist,         \* what happened since the last successful index_files
    prevScanned,  \* len(scanned) of that call
    keywords,     \* find_files' argument
    matches       \* find_files' fetched rows

vars == <<rootKind, fs, cfg, tableExists, index, pc, conn, work, existing,
          scanned, errors, excluded, deleted, stack, todo, statted, nInsert,
          nUpdate, result, hist, prevScanned, keywords, matches>>

fsVars == <<rootKind, fs>>

dbVars == <<tableExists, index>>

locals == <<work, existing, scanned, errors, excluded, deleted, stack, todo,
            statted, nInsert, nUpdate>>

findVars == <<keywords, matches>>

EmptyDict == [p \in {} |-> 0]

Init ==
    /\ rootKind = "dir"
    /\ fs = [p \in Paths |-> Absent]
    /\ cfg \in Configs
    /\ tableExists = FALSE
    /\ index = {}
    /\ pc = "idle"
    /\ conn = "none"
    /\ work = {}
    /\ existing = EmptyDict
    /\ scanned = {}
    /\ errors = << >>
    /\ excluded = 0
    /\ deleted = 0
    /\ stack = << >>
    /\ todo = {}
    /\ statted = {}
    /\ nInsert = 0
    /\ nUpdate = 0
    /\ result = "None"
    /\ hist = "other"
    /\ prevScanned = 0
    /\ keywords = << >>
    /\ matches = {}

\* ------------------------------------------------- the world between calls

\* What a change does to the history: one touch of an indexed file right
\* after a successful index_files is remembered, anything else is "other".
Changed == /\ hist' = "other"
           /\ prevScanned' = 0

idleFrame == UNCHANGED <<dbVars, pc, conn, locals, result, findVars>>

CreateFile(p, m) ==
    /\ pc = "idle" /\ rootKind = "dir"
    /\ fs[p] = Absent
    /\ fs' = [fs EXCEPT ![p] = m]
    /\ Changed
    /\ UNCHANGED <<rootKind, cfg>> /\ idleFrame

TouchFile(p, m) ==
    /\ pc = "idle" /\ rootKind = "dir"
    /\ fs[p] \in Mtimes /\ fs[p] # m
    /\ fs' = [fs EXCEPT ![p] = m]
    /\ IF hist = "none" /\ p \in RowPaths(index)
       THEN hist' = "touch" /\ UNCHANGED prevScanned
       ELSE Changed
    /\ UNCHANGED <<rootKind, cfg>> /\ idleFrame

RemoveFile(p) ==
    /\ pc = "idle" /\ rootKind = "dir"
    /\ fs[p] # Absent
    /\ fs' = [fs EXCEPT ![p] = Absent]
    /\ Changed
    /\ UNCHANGED <<rootKind, cfg>> /\ idleFrame

\* The file stays listed but can no longer be stat'ed.
LockFile(p) ==
    /\ pc = "idle" /\ rootKind = "dir"
    /\ fs[p] \in Mtimes
    /\ fs' = [fs EXCEPT ![p] = NoAccess]
    /\ Changed
    /\ UNCHANGED <<rootKind, cfg>> /\ idleFrame

UnlockFile(p, m) ==
    /\ pc = "idle" /\ rootKind = "dir"
    /\ fs[p] = NoAccess
    /\ fs' = [fs EXCEPT ![p] = m]
    /\ Changed
    /\ UNCHANGED <<rootKind, cfg>> /\ idleFrame

\* dataset_path is removed with all below it, or replaced by a plain file.
RemoveRoot(kind) ==
    /\ pc = "idle" /\ rootKind = "dir"
    /\ rootKind' = kind
    /\ fs' = [p \in Paths |-> Absent]
    /\ Changed
    /\ UNCHANGED cfg /\ idleFrame

MakeRoot ==
    /\ pc = "idle" /\ rootKind # "dir"
    /\ rootKind' = "dir"
    /\ Changed
    /\ UNCHANGED <<fs, cfg>> /\ idleFrame

\* config.json is edited.
SetConfig(c) ==
    /\ pc = "idle"
    /\ c # cfg
    /\ cfg' = c
    /\ Changed
    /\ UNCHANGED fsVars /\ idleFrame

\* ---------------------------------------------------------- index_files

\* The outer handlers, lines 198-203: the call returns False; the connection
\* is not closed and the transaction is never committed.
Fail ==
    /\ result' = "False"
    /\ pc' = "done"

\* RootValid without the isdir check of lines 99-101.
RootValidExists(kind) == kind # "missing"

\* Lines 94-101: dataset_path exists and is a directory.
RootValid(kind) == kind = "dir"

\* Lines 60-101.
IndexStart ==
    /\ pc = "idle"
    /\ IF RootValid(rootKind)
       THEN pc' = "connect" /\ UNCHANGED result
       ELSE Fail
    /\ UNCHANGED <<fsVars, cfg, dbVars, conn, locals, hist, prevScanned,
                   findVars>>

\* Lines 108-109.
Connect ==
    /\ pc = "connect"
    /\ \/ conn' = "open" /\ pc' = "create" /\ UNCHANGED result
       \/ Fail /\ UNCHANGED conn
    /\ UNCHANGED <<fsVars, cfg, dbVars, locals, hist, prevScanned, findVars>>

\* Line 114.
CreateTable ==
    /\ pc = "create"
    /\ \/ tableExists' = TRUE /\ pc' = "select" /\ UNCHANGED result
       \/ Fail /\ UNCHANGED tableExists
    /\ UNCHANGED <<fsVars, cfg, index, conn, locals, hist, prevScanned,
                   findVars>>

\* Lines 118-124.
SelectExisting ==
    /\ pc = "select"
    /\ \/ /\ existing' = DictOf(index)
          /\ work' = index
          /\ stack' = <<Root>>
          /\ pc' = "walk"
          /\ UNCHANGED result
       \/ Fail /\ UNCHANGED <<existing, work, stack>>
    /\ UNCHANGED <<fsVars, cfg, dbVars, conn, scanned, errors, excluded,
                   deleted, todo, statted, nInsert, nUpdate, hist,
                   prevScanned, findVars>>

\* VisitFile with os.path.getmtime called before the exclusion checks.
VisitFileStatFirst(st, dir, f, raises) ==
    LET path == Join(dir, f)
        mtime == fs[path]
        seen == [st EXCEPT !.statted = @ \cup {path}]
        ok == [seen EXCEPT !.scanned = @ \cup {path}]
    IN  IF mtime = NoAccess
        THEN [seen EXCEPT !.errors = Append(@, <<"access", path>>)]
        ELSE IF ExtExcluded(cfg, path)
        THEN [seen EXCEPT !.excluded = @ + 1]
        ELSE IF PatExcluded(cfg, f)
        THEN [seen EXCEPT !.excluded = @ + 1]
        ELSE IF path \in DOMAIN existing
        THEN IF existing[path] # mtime
             THEN IF raises
                  THEN [ok EXCEPT !.nUpdate = @ + 1,
                                  !.errors = Append(@, <<"error", path>>)]
                  ELSE [ok EXCEPT !.nUpdate = @ + 1,
                                  !.work = UpdateRow(@, path, mtime)]
             ELSE ok
        ELSE IF raises \/ InsertRaises(st.work, path)
             THEN [ok EXCEPT !.nInsert = @ + 1,
                             !.errors = Append(@, <<"error", path>>)]
             ELSE [ok EXCEPT !.nInsert = @ + 1,
                             !.work = InsertRow(@, path, mtime)]

\* VisitFile with the OSError of os.path.getmtime passed over in silence.
VisitFileDropsAccessError(st, dir, f, raises) ==
    LET path == Join(dir, f)
        mtime == fs[path]
        seen == [st EXCEPT !.statted = @ \cup {path}]
        ok == [seen EXCEPT !.scanned = @ \cup {path}]
    IN  IF ExtExcluded(cfg, path)
        THEN [st EXCEPT !.excluded = @ + 1]
        ELSE IF PatExcluded(cfg, f)
        THEN [st EXCEPT !.excluded = @ + 1]
        ELSE IF mtime = NoAccess
        THEN seen
        ELSE IF path \in DOMAIN existing
        THEN IF existing[path] # mtime
             THEN IF raises
                  THEN [ok EXCEPT !.nUpdate = @ + 1,
                                  !.errors = Append(@, <<"error", path>>)]
                  ELSE [ok EXCEPT !.nUpdate = @ + 1,
                                  !.work = UpdateRow(@, path, mtime)]
             ELSE ok
        ELSE IF raises \/ InsertRaises(st.work, path)
             THEN [ok EXCEPT !.nInsert = @ + 1,
                             !.errors = Append(@, <<"error", path>>)]
             ELSE [ok EXCEPT !.nInsert = @ + 1,
                             !.work = InsertRow(@, path, mtime)]

\* VisitFile counting a file once for its extension and once for its name.
VisitFileCountsTwice(st, dir, f, raises) ==
    LET path == Join(dir, f)
        mtime == fs[path]
        seen == [st EXCEPT !.statted = @ \cup {path}]
        ok == [seen EXCEPT !.scanned = @ \cup {path}]
        hits == (IF ExtExcluded(cfg, path) THEN 1 ELSE 0)
                + (IF PatExcluded(cfg, f) THEN 1 ELSE 0)
    IN  IF hits > 0
        THEN [st EXCEPT !.excluded = @ + hits]
        ELSE IF mtime = NoAccess
        THEN [seen EXCEPT !.errors = Append(@, <<"access", path>>)]
        ELSE IF path \in DOMAIN existing
        THEN IF existing[path] # mtime
             THEN IF raises
                  THEN [ok EXCEPT !.nUpdate = @ + 1,
                                  !.errors = Append(@, <<"error", path>>)]
                  ELSE [ok EXCEPT !.nUpdate = @ + 1,
                                  !.work = UpdateRow(@, path, mtime)]
             ELSE ok
        ELSE IF raises \/ InsertRaises(st.work, path)
             THEN [ok EXCEPT !.nInsert = @ + 1,
                             !.errors = Append(@, <<"error", path>>)]
             ELSE [ok EXCEPT !.nInsert = @ + 1,
                             !.work = InsertRow(@, path, mtime)]

\* Lines 132-166, the body of "for f in files" for one file. st holds the
\* locals the loop changes; raises says that the statement executed for this
\* file, if any, raises.
VisitFile(st, dir, f, raises) ==
    LET path == Join(dir, f)
        mtime == fs[path]
        seen == [st EXCEPT !.statted = @ \cup {path}]
        ok == [seen EXCEPT !.scanned = @ \cup {path}]
    IN  IF ExtExcluded(cfg, path)
        THEN [st EXCEPT !.excluded = @ + 1]
        ELSE IF PatExcluded(cfg, f)
        THEN [st EXCEPT !.excluded = @ + 1]
        ELSE IF mtime = NoAccess
        THEN [seen EXCEPT !.errors = Append(@, <<"access", path>>)]
        ELSE IF path \in DOMAIN existing
        THEN IF existing[path] # mtime
             THEN IF raises
                  THEN [ok EXCEPT !.nUpdate = @ + 1,
                                  !.errors = Append(@, <<"error", path>>)]
                  ELSE [ok EXCEPT !.nUpdate = @ + 1,
                                  !.work = UpdateRow(@, path, mtime)]
             ELSE ok
        ELSE IF raises \/ InsertRaises(st.work, path)
             THEN [ok EXCEPT !.nInsert = @ + 1,
                             !.errors = Append(@, <<"error", path>>)]
             ELSE [ok EXCEPT !.nInsert = @ + 1,
                             !.work = InsertRow(@, path, mtime)]

RECURSIVE VisitFiles(_, _, _, _)
VisitFiles(st, dir, files, raising) ==
    IF files = << >> THEN st
    ELSE VisitFiles(VisitFile(st, dir, Head(files), Head(files) \in raising),
                    dir, Tail(files), raising)

\* The files os.walk lists in a directory.
ListFiles(dir) ==
    SelectSeq(FileNames(dir), LAMBDA n : fs[Join(dir, n)] # Absent)

\* Lines 127-166: one iteration of the os.walk loop. When os.walk is
\* exhausted the delete loop of lines 169-170 begins.
WalkDir ==
    /\ pc = "walk"
    /\ stack # << >>
    /\ LET dir == Head(stack)
           kept == KeptDirs(cfg, SubdirNames(dir))
           files == ListFiles(dir)
           st == [work |-> work, scanned |-> scanned, errors |-> errors,
                  excluded |-> excluded, statted |-> statted,
                  nInsert |-> nInsert, nUpdate |-> nUpdate]
       IN  \E raising \in SUBSET Range(files) :
             LET new == VisitFiles(st, dir, files, raising)
                 rest == [i \in 1..Len(kept) |-> Join(dir, kept[i])]
                         \o Tail(stack)
             IN  /\ work' = new.work
                 /\ scanned' = new.scanned
                 /\ errors' = new.errors
                 /\ excluded' = new.excluded
                 /\ statted' = new.statted
                 /\ nInsert' = new.nInsert
                 /\ nUpdate' = new.nUpdate
                 /\ stack' = rest
                 /\ IF rest = << >>
                    THEN /\ pc' = "delete"
                         /\ deleted' = 0
                         /\ todo' = DOMAIN existing \ new.scanned
                    ELSE UNCHANGED <<pc, deleted, todo>>
    /\ UNCHANGED <<fsVars, cfg, dbVars, conn, existing, result, hist,
                   prevScanned, findVars>>

\* DeleteStale with every DELETE committed at once (autocommit).
DeleteStaleAutocommit ==
    /\ pc = "delete"
    /\ \E p \in todo :
         \/ /\ work' = DeleteRow(work, p)
            /\ index' = DeleteRow(index, p)
            /\ deleted' = deleted + 1
            /\ todo' = todo \ {p}
            /\ UNCHANGED <<pc, result>>
         \/ Fail /\ UNCHANGED <<work, index, deleted, todo>>
    /\ UNCHANGED <<fsVars, cfg, tableExists, conn, existing, scanned, errors,
                   excluded, stack, statted, nInsert, nUpdate, hist,
                   prevScanned, findVars>>

\* Lines 170-173: the next baseline path that is not in scanned.
DeleteStale ==
    /\ pc = "delete"
    /\ \E p \in todo :
         \/ /\ work' = DeleteRow(work, p)
            /\ deleted' = deleted + 1
            /\ todo' = todo \ {p}
            /\ UNCHANGED <<pc, result>>
         \/ Fail /\ UNCHANGED <<work, deleted, todo>>
    /\ UNCHANGED <<fsVars, cfg, dbVars, conn, existing, scanned, errors,
                   excluded, stack, statted, nInsert, nUpdate, hist,
                   prevScanned, findVars>>

\* Lines 176-196.
Commit ==
    /\ pc = "delete"
    /\ todo = {}
    /\ \/ /\ index' = work
          /\ conn' = "closed"
          /\ result' = "True"
          /\ pc' = "done"
       \/ Fail /\ UNCHANGED <<index, conn>>
    /\ UNCHANGED <<fsVars, cfg, tableExists, locals, hist, prevScanned,
                   findVars>>

\* The call is over: its locals are gone.
Return ==
    /\ pc = "done"
    /\ pc' = "idle"
    /\ conn' = "none"
    /\ result' = "None"
    /\ work' = {}
    /\ existing' = EmptyDict
    /\ scanned' = {}
    /\ errors' = << >>
    /\ excluded' = 0
    /\ deleted' = 0
    /\ stack' = << >>
    /\ todo' = {}
    /\ statted' = {}
    /\ nInsert' = 0
    /\ nUpdate' = 0
    /\ IF result = "True"
       THEN hist' = "none" /\ prevScanned' = Cardinality(scanned)
       ELSE Changed
    /\ UNCHANGED <<fsVars, cfg, dbVars, findVars>>

Next ==
    \/ \E p \in Paths, m \in Mtimes : CreateFile(p, m)
    \/ \E p \in Paths, m \in Mtimes : TouchFile(p, m)
    \/ \E p \in Paths : RemoveFile(p)
    \/ \E p \in Paths : LockFile(p)
    \/ \E p \in Paths, m \in Mtimes : UnlockFile(p, m)
    \/ \E kind \in {"missing", "file"} : RemoveRoot(kind)
    \/ MakeRoot
    \/ \E c \in Configs : SetConfig(c)
    \/ IndexStart
    \/ Connect
    \/ CreateTable
    \/ SelectExisting
    \/ WalkDir
    \/ DeleteStale
    \/ Commit
    \/ Return

Spec == Init /\ [][Next]_vars

\* ------------------------------------------------------------ find_files

\* The keywords find_files is called with.
Keywords == {<<"a">>, <<"X">>, <<"_">>, <<"%", "c">>}

RECURSIVE SeqsUpTo(_, _)
SeqsUpTo(S, n) ==
    IF n = 0 THEN {<< >>}
    ELSE LET shorter == SeqsUpTo(S, n - 1)
         IN  shorter \cup {Append(s, x) : s \in shorter, x \in S}

KeywordLists == SeqsUpTo(Keywords, MaxKeywords)

\* Line 225: the terms joined by " AND ".
WhereClause(kws) == [i \in 1..Len(kws) |-> "path LIKE ?"]

\* Line 229.
Params(kws) == [i \in 1..Len(kws) |-> <<"%">> \o kws[i] \o <<"%">>]

\* QueryParses accepting a WHERE with nothing after it.
QueryParsesAlways(where) == TRUE

\* Line 233-234: SQLite parses "SELECT path FROM files WHERE <terms>" only
\* when an expression follows WHERE.
QueryParses(where) == where # << >>

\* SQLite's LIKE: "%" matches any run of characters, "_" any one character,
\* any other character itself, ASCII letters without regard to case.
RECURSIVE Like(_, _)
Like(s, pat) ==
    IF pat = << >> THEN s = << >>
    ELSE IF Head(pat) = "%"
         THEN Like(s, Tail(pat)) \/ (s # << >> /\ Like(Tail(s), pat))
         ELSE /\ s # << >>
              /\ (Head(pat) = "_" \/ LowerChar(Head(pat)) = LowerChar(Head(s)))
              /\ Like(Tail(s), Tail(pat))

\* Lines 234-235: the rows the query fetches.
Fetch(tbl, params) ==
    {p \in RowPaths(tbl) : \A i \in 1..Len(params) : Like(p, params[i])}

\* Lines 240-245: find_files returns None; the connection is not closed.
FindFail ==
    /\ result' = "None"
    /\ pc' = "fdone"

\* Lines 206-221.
FindConnect(kws) ==
    /\ pc = "idle"
    /\ keywords' = kws
    /\ \/ conn' = "open" /\ pc' = "fquery" /\ UNCHANGED result
       \/ FindFail /\ UNCHANGED conn
    /\ UNCHANGED <<fsVars, cfg, dbVars, locals, hist, prevScanned, matches>>

\* Lines 225-238.
FindExecute ==
    /\ pc = "fquery"
    /\ \/ /\ QueryParses(WhereClause(keywords))
          /\ tableExists
          /\ matches' = Fetch(index, Params(keywords))
          /\ conn' = "closed"
          /\ result' = "rows"
          /\ pc' = "fdone"
       \/ FindFail /\ UNCHANGED <<matches, conn>>
    /\ UNCHANGED <<fsVars, cfg, dbVars, locals, hist, prevScanned, keywords>>

\* The call is over.
FindReturn ==
    /\ pc = "fdone"
    /\ pc' = "idle"
    /\ conn' = "none"
    /\ result' = "None"
    /\ keywords' = << >>
    /\ matches' = {}
    /\ UNCHANGED <<fsVars, cfg, dbVars, locals, hist, prevScanned>>

\* Any table index_files can have left: no table yet, or rows with distinct
\* paths.
Tables ==
    {tbl \in SUBSET (Paths \X Mtimes) :
       \A r, q \in tbl : r[1] = q[1] => r = q}

InitSearch ==
    /\ rootKind = "dir"
    /\ fs = [p \in Paths |-> Absent]
    /\ cfg \in Configs
    /\ tableExists \in BOOLEAN
    /\ index \in Tables
    /\ (~ tableExists => index = {})
    /\ pc = "idle"
    /\ conn = "none"
    /\ work = {}
    /\ existing = EmptyDict
    /\ scanned = {}
    /\ errors = << >>
    /\ excluded = 0
    /\ deleted = 0
    /\ stack = << >>
    /\ todo = {}
    /\ statted = {}
    /\ nInsert = 0
    /\ nUpdate = 0
    /\ result = "None"
    /\ hist = "other"
    /\ prevScanned = 0
    /\ keywords = << >>
    /\ matches = {}

NextSearch ==
    \/ \E kws \in KeywordLists : FindConnect(kws)
    \/ FindExecute
    \/ FindReturn

SpecSearch == InitSearch /\ [][NextSearch]_vars

\* ------------------------------------------------------------ the claims

\* index_files has returned True.
Succeeded == pc = "done" /\ result = "True"

\* dataset_path exists and is a directory.
RootValidClaim(kind) == kind \notin {"missing", "file"}

\* The base name of a path, and a path lying below a directory.
BaseOf(p) == SubSeq(p, LastIndexOf(p, "/") + 1, Len(p))

Under(d, p) ==
    /\ Len(d) + 1 <= Len(p)
    /\ SubSeq(p, 1, Len(d) + 1) = d \o <<"/">>

\* The rows of a dictionary.
RowsOf(dict) == {<<p, dict[p]>> : p \in DOMAIN dict}

\* The file matches an extension rule or a name-pattern rule of config.json.
MatchesFileRule(p) ==
    \/ \E e \in cfg.exts : NormalizeExt(e) = Lower(SplitExt(p))
    \/ \E pat \in cfg.pats : Fnmatch(BaseOf(p), pat)

\* A directory below the root, on the way to the file, has a base name that
\* matches a directory rule of config.json.
InPrunedSubtree(p) ==
    \E d \in Dirs \ {Root} :
      /\ Under(d, p)
      /\ \E pat \in cfg.dirs : Fnmatch(BaseOf(d), pat)

\* The files on disk that the rules in force let into the index and whose
\* modification time can be read.
Indexable ==
    {p \in Paths :
       /\ fs[p] \in Mtimes
       /\ ~ (cfg.enabled /\ (MatchesFileRule(p) \/ InPrunedSubtree(p)))}

\* C1: after index_files returns True, the index holds exactly one row for
\* every non-excluded file under the root, with the file's modification time,
\* and no other row.
C1_IndexEqualsFiles ==
    Succeeded => index = {<<p, fs[p]>> : p \in Indexable}

\* C2: after a successful index_files, every baseline path whose file is gone
\* is absent from the index and is one of the paths counted, once each, in
\* deleted.
C2_RemovedFilesDeleted ==
    Succeeded =>
      /\ deleted = Cardinality(DOMAIN existing \ scanned)
      /\ \A p \in DOMAIN existing :
           fs[p] = Absent =>
             /\ p \notin RowPaths(index)
             /\ p \in DOMAIN existing \ scanned

C2_Witness ==
    /\ Succeeded
    /\ \E p \in DOMAIN existing : fs[p] = Absent
    /\ \E p \in DOMAIN existing : fs[p] \in Mtimes /\ p \in scanned

\* C3 as stated: with exclusions enabled, after a successful index_files no
\* file that matches a file rule is in the index, and excluded counts every
\* such file.
C3_Original ==
    (Succeeded /\ cfg.enabled) =>
      /\ \A p \in Paths :
           (fs[p] # Absent /\ MatchesFileRule(p)) => p \notin RowPaths(index)
      /\ excluded =
           Cardinality({p \in Paths : fs[p] # Absent /\ MatchesFileRule(p)})

\* C3 as amended: with exclusions enabled, after a successful index_files no
\* file that matches a file rule is in the index, and excluded counts every
\* such file that does not lie below a pruned directory.
C3_ExcludedFilesAbsent ==
    (Succeeded /\ cfg.enabled) =>
      /\ \A p \in Paths :
           (fs[p] # Absent /\ MatchesFileRule(p)) => p \notin RowPaths(index)
      /\ excluded =
           Cardinality({p \in Paths : /\ fs[p] # Absent
                                      /\ MatchesFileRule(p)
                                      /\ ~ InPrunedSubtree(p)})

C3_Witness ==
    /\ Succeeded
    /\ cfg.enabled
    /\ \E p \in DOMAIN existing :
         fs[p] # Absent /\ MatchesFileRule(p) /\ ~ InPrunedSubtree(p)
    /\ \E p \in Paths :
         fs[p] # Absent /\ MatchesFileRule(p) /\ InPrunedSubtree(p)

\* C4: with exclusions disabled, whatever the rules say, after a successful
\* index_files every file whose modification time can be read is in the
\* index, every file on disk was visited (no directory was pruned) and
\* excluded is 0.
C4_DisabledIndexesAll ==
    (Succeeded /\ ~ cfg.enabled) =>
      /\ RowPaths(index) = {p \in Paths : fs[p] \in Mtimes}
      /\ statted = {p \in Paths : fs[p] # Absent}
      /\ excluded = 0

\* C5: with exclusions enabled, a file below a directory whose base name
\* matches a directory rule is never stat'ed, never in scanned, never in
\* errors, and is not in the index after a successful index_files.
C5_PrunedSubtreeUntouched ==
    cfg.enabled =>
      \A p \in Paths :
        InPrunedSubtree(p) =>
          /\ p \notin statted
          /\ p \notin scanned
          /\ \A i \in 1..Len(errors) : errors[i][2] # p
          /\ (Succeeded => p \notin RowPaths(index))

C5_Witness ==
    /\ Succeeded
    /\ cfg.enabled
    /\ \E p \in DOMAIN existing : fs[p] \in Mtimes /\ InPrunedSubtree(p)
    /\ \E p \in Paths : fs[p] = NoAccess /\ InPrunedSubtree(p)

\* C6: a successful index_files that follows a successful index_files, with
\* the same rules and nothing changed on disk, deletes nothing, executes no
\* INSERT and no UPDATE, and leaves the index as it found it.
C6_SecondRunIsNoOp ==
    (Succeeded /\ hist = "none") =>
      /\ deleted = 0
      /\ nInsert = 0
      /\ nUpdate = 0
      /\ index = RowsOf(existing)

\* C7: index_files executes an INSERT for each scanned path that is not in
\* the baseline, an UPDATE for each scanned path whose baseline mtime differs
\* and nothing for the others; and a successful index_files after a touch of
\* one indexed file executes one UPDATE, deletes nothing, scans as many
\* files as before and changes only that path's row, to the new mtime.
C7_PerPathReconciliation ==
    /\ pc \in {"delete", "done"} =>
         /\ nInsert = Cardinality(scanned \ DOMAIN existing)
         /\ nUpdate = Cardinality({p \in scanned \cap DOMAIN existing :
                                     existing[p] # fs[p]})
    /\ (Succeeded /\ hist = "touch") =>
         /\ nUpdate = 1
         /\ nInsert = 0
         /\ deleted = 0
         /\ Cardinality(scanned) = prevScanned
         /\ \E p \in DOMAIN existing :
              /\ existing[p] # fs[p]
              /\ index = UpdateRow(RowsOf(existing), p, fs[p])

\* A keyword occurs in a path as a contiguous run of the same characters,
\* ASCII letters compared without regard to case.
Occurs(kw, p) ==
    \E i \in 0..(Len(p) - Len(kw)) :
      \A j \in 1..Len(kw) : LowerChar(p[i + j]) = LowerChar(kw[j])

\* C8: find_files with at least one keyword returns exactly the stored paths
\* in which every keyword occurs literally.
C8_LiteralConjunction ==
    (pc = "fdone" /\ result = "rows" /\ keywords # << >>) =>
      matches = {p \in RowPaths(index) :
                   \A i \in 1..Len(keywords) : Occurs(keywords[i], p)}

\* C9 as stated: find_files with no keyword, once connected, returns every
\* stored path.
C9_Original ==
    (pc = "fdone" /\ keywords = << >> /\ conn # "none") =>
      (result = "rows" /\ matches = RowPaths(index))

\* C9 as amended: find_files with no keyword returns None, the error result,
\* and no path, whatever the index holds.
C9_EmptyKeywordsRejected ==
    (pc = "fdone" /\ keywords = << >>) =>
      (result = "None" /\ matches = {})

C9_Witness ==
    /\ pc = "fdone"
    /\ keywords = << >>
    /\ conn = "open"
    /\ tableExists
    /\ index # {}
    /\ result = "None"

\* C10: while dataset_path is missing or is not a directory, a call of
\* index_files returns False at once, no connection is open, and neither the
\* table nor its rows change.
C10_InvalidRootNoMutation ==
    [][(~ RootValidClaim(rootKind)) =>
         /\ UNCHANGED <<tableExists, index>>
         /\ conn' = "none"
         /\ (pc = "idle" /\ pc' # "idle") => (pc' = "done" /\ result' = "False")
      ]_vars

C10_Witness ==
    /\ pc = "done"
    /\ rootKind = "file"
    /\ result = "False"
    /\ index # {}

\* The rules in force keep the file out of the index.
RuledOut(p) == cfg.enabled /\ (MatchesFileRule(p) \/ InPrunedSubtree(p))

\* C11: a non-excluded file whose modification time cannot be read is never
\* in scanned, and after a successful index_files its baseline row is still
\* in the index, with the baseline mtime.
C11_UnreadableEntryKept ==
    \A p \in Paths :
      (fs[p] = NoAccess /\ ~ RuledOut(p)) =>
        /\ p \notin scanned
        /\ (Succeeded /\ p \in DOMAIN existing) =>
             <<p, existing[p]>> \in index

\* C12: once a storage call of index_files has raised, the call is over and
\* has returned False.
C12_StorageErrorAborts ==
    (\E i \in 1..Len(errors) : errors[i][1] = "error") =>
      (pc = "done" /\ result = "False")

\* C13: a call that opened a connection has closed it when it returns.
C13_ConnectionClosed ==
    (pc \in {"done", "fdone"} /\ conn # "none") => conn = "closed"

\* C14: the index_files that completes successfully makes the index equal to
\* the non-excluded files on disk with their current mtimes, and while
\* nothing has changed since a successful index_files no step changes the
\* index.
C14_EventuallyConsistent ==
    [][/\ (pc = "delete" /\ pc' = "done" /\ result' = "True") =>
            index' = {<<p, fs[p]>> : p \in Indexable}
       /\ hist = "none" => index' = index
      ]_vars

\* C15: the committed rows change only when index_files commits, to the rows
\* of its transaction; a call that has failed has left them as they were;
\* and neither the committed rows nor the transaction's hold two rows for
\* one path.
C15_SingleTransaction ==
    [][/\ index' # index =>
            /\ pc = "delete" /\ pc' = "done" /\ result' = "True"
            /\ index' = work
       /\ (pc' = "done" /\ result' = "False" /\ pc = "delete") =>
            index' = RowsOf(existing)
       /\ \A r, q \in index' : r[1] = q[1] => r = q
       /\ \A r, q \in work' : r[1] = q[1] => r = q
      ]_vars

C15_Witness ==
    /\ pc = "done"
    /\ result = "False"
    /\ index # {}
    /\ index = RowsOf(existing)
    /\ work # index
    /\ deleted > 0
    /\ nInsert + nUpdate > 0

\* The paths index_files has recorded an error of the given kind for.
ErrorPaths(errs, kind) ==
    {errs[i][2] : i \in {j \in 1..Len(errs) : errs[j][1] = kind}}

\* C16 as stated: with exclusions enabled, a file that matches a file rule
\* and cannot be stat'ed is never stat'ed, has no error recorded, and after a
\* successful index_files the index holds for its path what the baseline
\* held.
C16_Original ==
    \A p \in Paths :
      (cfg.enabled /\ MatchesFileRule(p) /\ fs[p] = NoAccess) =>
        /\ p \notin statted
        /\ p \notin ErrorPaths(errors, "access") \cup ErrorPaths(errors, "error")
        /\ Succeeded =>
             {r \in index : r[1] = p} = {r \in RowsOf(existing) : r[1] = p}

\* C16 as amended: with exclusions enabled, a file that matches a file rule
\* and cannot be stat'ed is never stat'ed, has no error recorded, is never in
\* scanned and has no row inserted or updated; after a successful
\* index_files its path is not in the index, a baseline row being deleted.
C16_ExcludedNeverStatted ==
    \A p \in Paths :
      (cfg.enabled /\ MatchesFileRule(p) /\ fs[p] = NoAccess) =>
        /\ p \notin statted
        /\ p \notin ErrorPaths(errors, "access") \cup ErrorPaths(errors, "error")
        /\ p \notin scanned
        /\ {r \in work : r[1] = p} \subseteq RowsOf(existing)
        /\ Succeeded => p \notin RowPaths(index)

C16_Witness ==
    /\ Succeeded
    /\ cfg.enabled
    /\ \E p \in DOMAIN existing :
         MatchesFileRule(p) /\ ~ InPrunedSubtree(p) /\ fs[p] = NoAccess

C18_CountsAgreeWithIndex ==
    Succeeded =>
      /\ Cardinality(scanned) = Cardinality(index)
      /\ deleted = Cardinality(DOMAIN existing \ RowPaths(index))

\* The files index_files lists and skips for a file rule.
SkippedByRule ==
    {p \in Paths : /\ fs[p] # Absent
                   /\ cfg.enabled
                   /\ MatchesFileRule(p)
                   /\ ~ InPrunedSubtree(p)}

\* C19: when the walk is over, excluded is the number of files in visited
\* directories that match a file rule, each counted once and none below a
\* pruned directory; after a successful index_files a baseline path among
\* them is also one of the paths counted in deleted.
C19_ExcludedCount ==
    /\ (pc = "delete" \/ Succeeded) => excluded = Cardinality(SkippedByRule)
    /\ Succeeded =>
         /\ deleted = Cardinality(DOMAIN existing \ scanned)
         /\ SkippedByRule \cap DOMAIN existing \subseteq DOMAIN existing \ scanned

C19_Witness ==
    /\ Succeeded
    /\ \E p \in SkippedByRule \cap DOMAIN existing :
         /\ \E e \in cfg.exts : NormalizeExt(e) = Lower(SplitExt(p))
         /\ \E pat \in cfg.pats : Fnmatch(BaseOf(p), pat)
    /\ \E p \in Paths :
         fs[p] # Absent /\ MatchesFileRule(p) /\ InPrunedSubtree(p)
    /\ excluded = 2

====
